---- MODULE Spec2Model ----
(***************************************************************************)
(* Model of main.py, the ESP32 NVS provisioning tool.                      *)
(*                                                                         *)
(* Text is modelled as sequences of one-character strings, and a file as   *)
(* the sequence of its bytes, so that the csv writer, the csv reader and   *)
(* the file offset at which an 'r+' handle writes are modelled by what     *)
(* they do.  Each invocation of main is a process whose position (pc)      *)
(* moves through the steps of the workflow it dispatched to.               *)
(*                                                                         *)
(* Not modelled: failures of the file system itself (permissions, a full   *)
(* disk), i.e. the IOError handlers other than "file does not exist".      *)
(***************************************************************************)
EXTENDS Integers, Sequences, FiniteSets, TLC

VARIABLES
    fs,      \* the directory tree under certs/: device directory -> its files
    pc,      \* position of each invocation of main
    args,    \* the parsed command line of each invocation
    wf,      \* the branch of main's dispatch the invocation took
    dmac,    \* the MAC address the workflow runs for (given or discovered)
    entry,   \* the file system as generate_cert_bin found it when called
    seen,    \* bytes the open 'r+' handle has read; its offset is their length
    code,    \* value returned by generate_cert_bin in this invocation
    fcode,   \* value returned by flash_nvs in this invocation
    calls,   \* external commands run by this invocation, in order
    out,     \* what the invocation printed that the claims speak of
    touched, \* the functions of this invocation that created or wrote a file
    runs,    \* number of invocations of main started so far
    last     \* the most recent completed function call, before and after

vars == <<fs, pc, args, wf, dmac, entry, seen, code, fcode, calls, out, touched, runs, last>>

----------------------------------------------------------------------------
(* Bounds of the model *)

MaxRuns == 3

MaxConcRuns == 2

Procs == {"p1", "p2"}

----------------------------------------------------------------------------
(* Text *)

S_certs == <<"c", "e", "r", "t", "s">>
S_nvs_csv == <<"n", "v", "s", ".", "c", "s", "v">>
S_certs_bin == <<"c", "e", "r", "t", "s", ".", "b", "i", "n">>
S_device_pem_crt == <<"d", "e", "v", "i", "c", "e", ".", "p", "e", "m", ".", "c", "r", "t">>
S_private_pem_key == <<"p", "r", "i", "v", "a", "t", "e", ".", "p", "e", "m", ".", "k", "e", "y">>
S_key == <<"k", "e", "y">>
S_type == <<"t", "y", "p", "e">>
S_encoding == <<"e", "n", "c", "o", "d", "i", "n", "g">>
S_value == <<"v", "a", "l", "u", "e">>
S_namespace == <<"n", "a", "m", "e", "s", "p", "a", "c", "e">>
S_priv_key == <<"p", "r", "i", "v", "_", "k", "e", "y">>
S_file == <<"f", "i", "l", "e">>
S_string == <<"s", "t", "r", "i", "n", "g">>
S_certificate == <<"c", "e", "r", "t", "i", "f", "i", "c", "a", "t", "e">>
S_aes_key == <<"a", "e", "s", "_", "k", "e", "y">>
S_hv == <<"h", "v">>
S_data == <<"d", "a", "t", "a">>

CR == "\r"
LF == "\n"
COMMA == ","
QUOTE == "\""
SEP == "/"

RECURSIVE Concat(_)
Concat(ss) == IF ss = <<>> THEN <<>> ELSE Head(ss) \o Concat(Tail(ss))

RECURSIVE Without(_, _)
Without(s, c) ==
    IF s = <<>> THEN <<>>
    ELSE IF Head(s) = c THEN Without(Tail(s), c)
    ELSE <<Head(s)>> \o Without(Tail(s), c)

RECURSIVE LStrip(_)
LStrip(s) == IF s /= <<>> /\ Head(s) = " " THEN LStrip(Tail(s)) ELSE s

RECURSIVE RStrip(_)
RStrip(s) ==
    IF s /= <<>> /\ s[Len(s)] = " " THEN RStrip(SubSeq(s, 1, Len(s) - 1)) ELSE s

Strip(s) == RStrip(LStrip(s))

IsPrefix(s, t) == Len(s) <= Len(t) /\ SubSeq(t, 1, Len(s)) = s

\* "".join(device_mac.strip().split(':'))
MacNorm(device_mac) == Without(Strip(device_mac), ":")

\* os.path.join(a, b)
PathJoin(a, b) == a \o <<SEP>> \o b

----------------------------------------------------------------------------
(* csv.writer and csv.reader, default (excel) dialect, QUOTE_MINIMAL *)

NeedsQuote(f) == \E i \in 1..Len(f) : f[i] \in {COMMA, QUOTE, CR, LF}

RECURSIVE DoubleQuotes(_)
DoubleQuotes(f) ==
    IF f = <<>> THEN <<>>
    ELSE (IF Head(f) = QUOTE THEN <<QUOTE, QUOTE>> ELSE <<Head(f)>>)
         \o DoubleQuotes(Tail(f))

WriteField(f) ==
    IF NeedsQuote(f) THEN <<QUOTE>> \o DoubleQuotes(f) \o <<QUOTE>> ELSE f

RECURSIVE JoinFields(_)
JoinFields(row) ==
    IF row = <<>> THEN <<>>
    ELSE IF Len(row) = 1 THEN WriteField(row[1])
    ELSE WriteField(Head(row)) \o <<COMMA>> \o JoinFields(Tail(row))

\* writer.writerow(row): the bytes of one record, lineterminator "\r\n"
WriteRow(row) == JoinFields(row) \o <<CR, LF>>

\* writer.writerows(rows)
WriteRows(rows) == Concat([i \in 1..Len(rows) |-> WriteRow(rows[i])])

\* The file iterator (newline='') ends a line after "\n", or after a "\r"
\* that no "\n" follows.
IsLineEnd(b, i) == b[i] = LF \/ (b[i] = CR /\ (i = Len(b) \/ b[i + 1] /= LF))

\* One character through the reader's state machine: <<state, field, row>>.
ReadChar(st, fld, row, c) ==
    LET nl == c \in {CR, LF} IN
    CASE st = "START_RECORD" /\ nl -> <<"EAT_CRNL", fld, row>>
      [] st \in {"START_RECORD", "START_FIELD"} /\ ~nl ->
            IF c = QUOTE THEN <<"IN_QUOTED_FIELD", fld, row>>
            ELSE IF c = COMMA THEN <<"START_FIELD", <<>>, Append(row, <<>>)>>
            ELSE <<"IN_FIELD", <<c>>, row>>
      [] st = "START_FIELD" /\ nl -> <<"EAT_CRNL", <<>>, Append(row, <<>>)>>
      [] st = "IN_FIELD" ->
            IF nl THEN <<"EAT_CRNL", <<>>, Append(row, fld)>>
            ELSE IF c = COMMA THEN <<"START_FIELD", <<>>, Append(row, fld)>>
            ELSE <<"IN_FIELD", Append(fld, c), row>>
      [] st = "IN_QUOTED_FIELD" ->
            IF c = QUOTE THEN <<"QUOTE_IN_QUOTED_FIELD", fld, row>>
            ELSE <<"IN_QUOTED_FIELD", Append(fld, c), row>>
      [] st = "QUOTE_IN_QUOTED_FIELD" ->
            IF c = QUOTE THEN <<"IN_QUOTED_FIELD", Append(fld, c), row>>
            ELSE IF c = COMMA THEN <<"START_FIELD", <<>>, Append(row, fld)>>
            ELSE IF nl THEN <<"EAT_CRNL", <<>>, Append(row, fld)>>
            ELSE <<"IN_FIELD", Append(fld, c), row>>
      [] st = "EAT_CRNL" -> <<"EAT_CRNL", fld, row>>

\* One character of the file through the reader: <<state, field, row, rows>>.
\* A record is complete when its line ends outside a quoted field.
ReadStep(b, i, s) ==
    LET n == ReadChar(s[1], s[2], s[3], b[i]) IN
    IF IsLineEnd(b, i) /\ n[1] = "EAT_CRNL"
    THEN <<"START_RECORD", <<>>, <<>>, Append(s[4], n[3])>>
    ELSE <<n[1], n[2], n[3], s[4]>>

\* The characters lo..hi in order.  The span is split in halves and the
\* state after the first half is looked at before the second half is read,
\* which keeps the evaluation's nesting logarithmic in the file's length.
RECURSIVE ReadSpan(_, _, _, _)
ReadSpan(b, lo, hi, s) ==
    IF lo > hi THEN s
    ELSE IF lo = hi THEN ReadStep(b, lo, s)
    ELSE LET mid  == (lo + hi) \div 2
             left == ReadSpan(b, lo, mid, s)
         IN  IF left[1] = "" THEN left ELSE ReadSpan(b, mid + 1, hi, left)

\* The reader on any bytes: every character through the state machine; at
\* the end of the file a record without line terminator is still returned.
ReadRowsQuoted(b) ==
    LET s == ReadSpan(b, 1, Len(b), <<"START_RECORD", <<>>, <<>>, <<>> >>)
    IN  IF s[1] = "START_RECORD" THEN s[4] ELSE Append(s[4], Append(s[3], s[2]))

\* Without a quote character the machine never leaves START_RECORD,
\* START_FIELD, IN_FIELD and EAT_CRNL: a record is a line, its fields are
\* what the commas separate, and a line that holds its terminator only is a
\* record without fields.
MinOf(S) == CHOOSE i \in S : \A j \in S : i <= j

RECURSIVE SplitFields(_, _, _)
SplitFields(b, lo, hi) ==
    LET commas == {i \in lo..hi : b[i] = COMMA} IN
    IF commas = {} THEN <<SubSeq(b, lo, hi)>>
    ELSE <<SubSeq(b, lo, MinOf(commas) - 1)>> \o SplitFields(b, MinOf(commas) + 1, hi)

RECURSIVE SplitLines(_, _, _)
SplitLines(b, lo, ends) ==
    IF lo > Len(b) THEN <<>>
    ELSE IF ends = {} THEN <<SplitFields(b, lo, Len(b))>>
    ELSE LET e  == MinOf(ends)
             hi == IF b[e] = LF /\ e > lo /\ b[e - 1] = CR THEN e - 2 ELSE e - 1
         IN  <<IF hi < lo THEN <<>> ELSE SplitFields(b, lo, hi)>>
             \o SplitLines(b, e + 1, ends \ {e})

ReadRowsPlain(b) == SplitLines(b, 1, {i \in 1..Len(b) : IsLineEnd(b, i)})

\* list(csv.reader(f)) on a file holding the bytes b
ReadRows(b) ==
    IF \E i \in 1..Len(b) : b[i] = QUOTE THEN ReadRowsQuoted(b) ELSE ReadRowsPlain(b)

\* faulty variant of ScanFor: the key is never found
ScanForNothing(rows, key) == "absent"

\* faulty variant of ScanFor: only the last row is looked at
ScanForLastRow(rows, key) ==
    IF rows = <<>> THEN "absent"
    ELSE IF rows[Len(rows)] = <<>> THEN "error"
    ELSE IF rows[Len(rows)][1] = key THEN "found"
    ELSE "absent"

\* for row in reader: if row[0] == key: return
\* "found" when a row with that first column comes first, "error" when an
\* empty row (row[0] raises IndexError) comes first, "absent" otherwise.
RECURSIVE ScanFor(_, _)
ScanFor(rows, key) ==
    IF rows = <<>> THEN "absent"
    ELSE IF Head(rows) = <<>> THEN "error"
    ELSE IF Head(rows)[1] = key THEN "found"
    ELSE ScanFor(Tail(rows), key)

\* the byte that fills a gap when a write lands past the end of a file
NUL == "\\0"

\* faulty variant of WriteAt: the file is opened with O_APPEND, every write
\* goes to its end
WriteAtEnd(b, off, data) == b \o data

\* faulty variant of WriteAt: the write truncates the file
WriteTruncating(b, off, data) == data

\* write(data) on a handle whose offset is off: bytes are replaced from off
\* on, the file grows as needed (a gap is filled with NUL bytes)
WriteAt(b, off, data) ==
    LET n == IF Len(b) > off + Len(data) THEN Len(b) ELSE off + Len(data) IN
    [i \in 1..n |->
        IF i > off /\ i <= off + Len(data) THEN data[i - off]
        ELSE IF i <= Len(b) THEN b[i]
        ELSE NUL]

----------------------------------------------------------------------------
(* The file system: the directories that exist and the bytes of each file *)

EmptyFS == [dirs |-> {}, files |-> <<>>]

\* faulty variant of Exists: the check for the file is missing
ExistsAlways(f, path) == TRUE

\* os.path.exists(path)
Exists(f, path) == path \in f.dirs \/ path \in DOMAIN f.files

IsFile(f, path) == path \in DOMAIN f.files

\* the bytes written replace the file (open(path, 'w') truncates)
WriteFile(f, path, data) == [f EXCEPT !.files = (path :> data) @@ @]

\* os.makedirs(path, exist_ok=True)
MakeDirs(f, path) == [f EXCEPT !.dirs = @ \cup {path}]

----------------------------------------------------------------------------
(* Module constants of main.py *)

KEY_SIZE_BYTES == 16

HexDigits == {"0", "f"}

\* generate_aes_key(KEY_SIZE_BYTES).hex(): two hex digits a byte.  The model
\* draws from the keys whose digits are all alike.
AesKeys == {[i \in 1..(2 * KEY_SIZE_BYTES) |-> d] : d \in HexDigits}

files_to_create == <<S_device_pem_crt, S_private_pem_key, S_nvs_csv>>

DeviceFolder(device_mac) == PathJoin(S_certs, MacNorm(device_mac))

CsvPath(device_mac) == PathJoin(DeviceFolder(device_mac), S_nvs_csv)

BinFile(device_mac) == PathJoin(DeviceFolder(device_mac), S_certs_bin)

----------------------------------------------------------------------------
(* create_folder_and_files *)

RECURSIVE CreateEmptyFiles(_, _, _)
CreateEmptyFiles(f, folder, names) ==
    IF names = <<>> THEN f
    ELSE CreateEmptyFiles(WriteFile(f, PathJoin(folder, Head(names)), <<>>),
                          folder, Tail(names))

DescriptorRows(folder) ==
    << <<S_key, S_type, S_encoding, S_value>>,
       <<S_certs, S_namespace, <<>>, <<>> >>,
       <<S_priv_key, S_file, S_string, PathJoin(folder, S_private_pem_key)>>,
       <<S_certificate, S_file, S_string, PathJoin(folder, S_device_pem_crt)>> >>

\* faulty variant of CreateFolderAndFiles: files are opened for appending, so what a
\* file held stays and the rows are added after it
CreateFolderAndFilesAppending(f, device_mac, file_names, target) ==
    LET folder == DeviceFolder(device_mac)
        path   == PathJoin(folder, target)
        made   == CreateEmptyFiles(MakeDirs(f, folder), folder, file_names)
        old    == IF IsFile(f, path) THEN f.files[path] ELSE <<>>
    IN  [made EXCEPT !.files =
            [q \in DOMAIN made.files |->
                IF q = path THEN old \o WriteRows(DescriptorRows(folder))
                ELSE IF IsFile(f, q) THEN f.files[q] ELSE <<>>]]

CreateFolderAndFiles(f, device_mac, file_names, target) ==
    LET folder == DeviceFolder(device_mac)
        made   == CreateEmptyFiles(MakeDirs(f, folder), folder, file_names)
    IN  IF target /= <<>>
        THEN WriteFile(made, PathJoin(folder, target), WriteRows(DescriptorRows(folder)))
        ELSE made

----------------------------------------------------------------------------
(* put_aes_key, put_hardware_version *)

AesRow(aes_key) == <<S_aes_key, S_data, S_string, aes_key>>

HvRow(version) == <<S_hv, S_data, S_string, version>>

\* faulty variant of AppendRow: the row is written at the start of the file
AppendRowAtStart(f, path, read, row) ==
    WriteFile(f, path, WriteAt(f.files[path], 0, WriteRow(row)))

\* The handle was opened 'r+': after the reader has consumed the file the
\* offset is the end of what it read, and writerow writes there.
AppendRow(f, path, read, row) ==
    WriteFile(f, path, WriteAt(f.files[path], Len(read), WriteRow(row)))

----------------------------------------------------------------------------
(* External commands *)

ExitCodes == {0, 1, 2}

\* What running a command can do: the executable is not found, or it runs
\* and exits with some code.
RunOutcomes ==
    {[spawned |-> FALSE, rc |-> 0]} \cup {[spawned |-> TRUE, rc |-> c] : c \in ExitCodes}

\* faulty variant of ExecuteCommand: the exit code is dropped
ExecuteCommandZero(o) == 0

\* execute_command: the command's exit code, 1 when it could not be started
ExecuteCommand(o) == IF o.spawned THEN o.rc ELSE 1

NoCall == [tool |-> "", sub |-> "", port |-> <<>>, baud |-> "", offset |-> "",
           file |-> <<>>, outfile |-> <<>>, size |-> "", spawned |-> FALSE, rc |-> 0]

GeneratorCmd(csv_path, bin_path, o) ==
    [NoCall EXCEPT !.tool = "cert_gen.py", !.sub = "generate", !.file = csv_path,
                   !.outfile = bin_path, !.size = "16384",
                   !.spawned = o.spawned, !.rc = o.rc]

FlashCmd(port, bin_file, o) ==
    [NoCall EXCEPT !.tool = "esptool", !.sub = "write_flash", !.port = port,
                   !.baud = "115200", !.offset = "0x9000", !.file = bin_file,
                   !.spawned = o.spawned, !.rc = o.rc]

ReadMacCmd(port, o) ==
    [NoCall EXCEPT !.tool = "esptool", !.sub = "read_mac", !.port = port,
                   !.spawned = o.spawned, !.rc = o.rc]

\* The generator is an external program: when it runs it may or may not
\* leave a blob, whatever its exit code.
Blob == <<"B", "I", "N">>
GenOutcomes ==
    {[spawned |-> o.spawned, rc |-> o.rc, wrote |-> w] :
        o \in RunOutcomes, w \in BOOLEAN} \ {[spawned |-> FALSE, rc |-> 0, wrote |-> TRUE]}

\* What the device on the port reports
DeviceMac == <<"A", ":", "B">>
ReadMacOutcomes ==
    { [spawned |-> FALSE, rc |-> 0, mac |-> <<>>],
      [spawned |-> TRUE, rc |-> 0, mac |-> DeviceMac],
      [spawned |-> TRUE, rc |-> 0, mac |-> <<>>],
      [spawned |-> TRUE, rc |-> 2, mac |-> <<>>] }

\* get_mac_address: the text after "MAC: " when esptool exited 0 and grep
\* found the marker, None (here the empty text) otherwise
GetMacResult(o) == IF o.rc = 0 THEN o.mac ELSE <<>>

----------------------------------------------------------------------------
(* Command lines *)

NoArg == [given |-> FALSE, val |-> <<>>]
Arg(v) == [given |-> TRUE, val |-> v]

\* Python truthiness of an optional string argument
Truthy(a) == a.given /\ a.val /= <<>>

PortArgs == {NoArg, Arg(<<"C", "O", "M", "3">>)}
MacArgs == {NoArg, Arg(<<>>), Arg(<<"A", ":", "B">>)}
HvArgs == {NoArg, Arg(<<"1">>), Arg(<<"2", ",", "0">>)}

Args == [port : PortArgs, mac : MacArgs, hv : HvArgs, generate : BOOLEAN]

\* faulty variant of Dispatch: no branch for --port alone
DispatchNoReadMac(a) ==
    IF Truthy(a.port) /\ Truthy(a.mac) /\ Truthy(a.hv) THEN "generate_flash_mac"
    ELSE IF Truthy(a.port) /\ Truthy(a.hv) THEN "generate_flash_port"
    ELSE IF a.generate /\ Truthy(a.mac) THEN "scaffold_mac"
    ELSE IF a.generate /\ Truthy(a.port) THEN "scaffold_port"
    ELSE "help"

\* main, lines 363-396: the branch taken
Dispatch(a) ==
    IF Truthy(a.port) /\ Truthy(a.mac) /\ Truthy(a.hv) THEN "generate_flash_mac"
    ELSE IF Truthy(a.port) /\ Truthy(a.hv) THEN "generate_flash_port"
    ELSE IF a.generate /\ Truthy(a.mac) THEN "scaffold_mac"
    ELSE IF a.generate /\ Truthy(a.port) THEN "scaffold_port"
    ELSE IF Truthy(a.port) THEN "read_mac"
    ELSE "help"

\* faulty variant of FlashGate: the code is not tested
FlashGateAlways(c) == TRUE

\* if(code == 0): flash_nvs(...)
FlashGate(c) == c = 0

----------------------------------------------------------------------------
(* Initial states: the tree under certs/ as a user may have left it *)

Supplied == <<"P", "E", "M">>

Folder0 == DeviceFolder(DeviceMac)

Put(f, present, name, data) ==
    IF present THEN WriteFile(f, PathJoin(Folder0, name), data) ELSE f

InitTree(cred, store, blob) ==
    LET f0 == MakeDirs(EmptyFS, Folder0)
        f1 == Put(f0, cred \in {"crt", "both"}, S_device_pem_crt, Supplied)
        f2 == Put(f1, cred = "both", S_private_pem_key, Supplied)
        f3 == Put(f2, store /= "none", S_nvs_csv,
                  IF store = "empty" THEN <<>> ELSE WriteRows(DescriptorRows(Folder0)))
    IN  Put(f3, blob, S_certs_bin, Blob)

\* absent, partly present (any of the files missing) or fully present
InitFS ==
    {EmptyFS} \cup
    {InitTree(t[1], t[2], t[3]) :
        t \in { <<"none", "none", FALSE>>, <<"crt", "none", FALSE>>,
                <<"none", "scaffolded", FALSE>>, <<"both", "empty", FALSE>>,
                <<"both", "scaffolded", FALSE>>, <<"both", "scaffolded", TRUE>> }}

NoLast == [fn |-> "", by |-> "", mac |-> <<>>, pre |-> EmptyFS, post |-> EmptyFS,
           read |-> <<>>, ret |-> <<>>, calls |-> <<>>, arg |-> <<>>]

NoArgs == [port |-> NoArg, mac |-> NoArg, hv |-> NoArg, generate |-> FALSE]

Init ==
    /\ fs \in InitFS
    /\ pc = [p \in Procs |-> "idle"]
    /\ args = [p \in Procs |-> NoArgs]
    /\ wf = [p \in Procs |-> ""]
    /\ dmac = [p \in Procs |-> <<>>]
    /\ entry = [p \in Procs |-> EmptyFS]
    /\ seen = [p \in Procs |-> <<>>]
    /\ code = [p \in Procs |-> <<>>]
    /\ fcode = [p \in Procs |-> <<>>]
    /\ calls = [p \in Procs |-> <<>>]
    /\ out = [p \in Procs |-> {}]
    /\ touched = [p \in Procs |-> {}]
    /\ runs = 0
    /\ last = NoLast

----------------------------------------------------------------------------
(* main *)

Quiet == \A q \in Procs : pc[q] = "idle"

FirstStep(w) ==
    CASE w = "generate_flash_mac" -> "generate_cert_bin"
      [] w = "scaffold_mac" -> "create_folder_and_files"
      [] w \in {"generate_flash_port", "scaffold_port", "read_mac"} -> "get_mac_address"
      [] w = "help" -> "done"

\* main up to the first call it makes (lines 317-396)
Main(p, a) ==
    /\ pc[p] = "idle"
    /\ runs' = runs + 1
    /\ args' = [args EXCEPT ![p] = a]
    /\ wf' = [wf EXCEPT ![p] = Dispatch(a)]
    /\ pc' = [pc EXCEPT ![p] = FirstStep(Dispatch(a))]
    /\ dmac' = [dmac EXCEPT ![p] =
                  IF Dispatch(a) \in {"generate_flash_mac", "scaffold_mac"}
                  THEN a.mac.val ELSE <<>>]
    /\ out' = [out EXCEPT ![p] = IF Dispatch(a) = "help" THEN {"help"} ELSE {}]
    /\ UNCHANGED <<fs, entry, seen, code, fcode, calls, touched, last>>

\* get_mac_address and what main does with its result (lines 290-315,
\* 372-379, 385-393).  Popen raises when esptool cannot be started: the
\* invocation ends there.
GetMacAddress(p) ==
    /\ pc[p] = "get_mac_address"
    /\ \E o \in ReadMacOutcomes :
        LET mac == GetMacResult(o) IN
        /\ calls' = [calls EXCEPT ![p] = Append(@, ReadMacCmd(args[p].port.val, o))]
        /\ dmac' = [dmac EXCEPT ![p] = IF o.spawned THEN mac ELSE <<>>]
        /\ pc' = [pc EXCEPT ![p] =
                    IF ~o.spawned \/ mac = <<>> \/ wf[p] = "read_mac" THEN "done"
                    ELSE IF wf[p] = "generate_flash_port" THEN "generate_cert_bin"
                    ELSE "create_folder_and_files"]
        /\ out' = [out EXCEPT ![p] =
                     IF o.spawned /\ mac = <<>> /\ wf[p] /= "read_mac"
                     THEN @ \cup {"Device Not Connected!"} ELSE @]
    /\ UNCHANGED <<fs, args, wf, entry, seen, code, fcode, touched, runs, last>>

\* create_folder_and_files(mac, files_to_create, files_to_create[-1])
Scaffold(p) ==
    /\ pc[p] = "create_folder_and_files"
    /\ fs' = CreateFolderAndFiles(fs, dmac[p], files_to_create,
                                  files_to_create[Len(files_to_create)])
    /\ touched' = [touched EXCEPT ![p] = @ \cup {"create_folder_and_files"}]
    /\ pc' = [pc EXCEPT ![p] = "done"]
    /\ last' = [NoLast EXCEPT !.fn = "create_folder_and_files", !.by = p, !.mac = dmac[p],
                              !.pre = fs, !.post = fs']
    /\ UNCHANGED <<args, wf, dmac, entry, seen, code, fcode, calls, out, runs>>

\* generate_cert_bin up to the call of put_aes_key (lines 157-168, 184-190)
GenerateCertBin(p) ==
    /\ pc[p] = "generate_cert_bin"
    /\ entry' = [entry EXCEPT ![p] = fs]
    /\ IF Exists(fs, CsvPath(dmac[p]))
       THEN /\ pc' = [pc EXCEPT ![p] = "put_aes_key"]
            /\ UNCHANGED <<code, out, last>>
       ELSE /\ pc' = [pc EXCEPT ![p] = "done"]
            /\ code' = [code EXCEPT ![p] = <<1>>]
            /\ out' = [out EXCEPT ![p] = @ \cup {"Suggestion: Generate device folder first"}]
            /\ last' = [NoLast EXCEPT !.fn = "generate_cert_bin", !.by = p, !.mac = dmac[p],
                                      !.pre = fs, !.post = fs, !.ret = <<1>>,
                                      !.arg = args[p].hv.val]
    /\ UNCHANGED <<fs, args, wf, dmac, seen, fcode, calls, touched, runs>>

\* The scan of put_aes_key / put_hardware_version: open 'r+', read every row.
\* The call returns here when the file cannot be opened, when the key is
\* found and when a row has no first column; else it goes on to append.
PutScan(p, fn, key, found_msg, append_pc, return_pc) ==
    /\ pc[p] = fn
    /\ \E path \in {CsvPath(dmac[p])} :
       \E res \in {IF IsFile(fs, path) THEN ScanFor(ReadRows(fs.files[path]), key)
                   ELSE "ioerror"} :
        IF res = "absent"
        THEN /\ seen' = [seen EXCEPT ![p] = fs.files[path]]
             /\ pc' = [pc EXCEPT ![p] = append_pc]
             /\ UNCHANGED <<out, last>>
        ELSE /\ pc' = [pc EXCEPT ![p] = return_pc]
             /\ out' = [out EXCEPT ![p] = @ \cup
                          {CASE res = "found" -> found_msg
                             [] res = "error" -> "An unexpected error occurred"
                             [] res = "ioerror" -> "Error: Could not write to CSV file"}]
             /\ last' = [NoLast EXCEPT !.fn = fn, !.by = p, !.mac = dmac[p],
                                       !.pre = fs, !.post = fs,
                                       !.read = IF res = "ioerror" THEN <<>> ELSE fs.files[path]]
             /\ UNCHANGED seen
    /\ UNCHANGED <<fs, args, wf, dmac, entry, code, fcode, calls, touched, runs>>

\* The append of put_aes_key / put_hardware_version: writerow, close.
PutAppend(p, fn, append_pc, row, return_pc) ==
    /\ pc[p] = append_pc
    /\ fs' = AppendRow(fs, CsvPath(dmac[p]), seen[p], row)
    /\ touched' = [touched EXCEPT ![p] = @ \cup {fn}]
    /\ pc' = [pc EXCEPT ![p] = return_pc]
    /\ last' = [NoLast EXCEPT !.fn = fn, !.by = p, !.mac = dmac[p], !.pre = fs, !.post = fs',
                              !.read = seen[p], !.arg = row[4]]
    /\ UNCHANGED <<args, wf, dmac, entry, seen, code, fcode, calls, out, runs>>

PutAesKeyScan(p) ==
    PutScan(p, "put_aes_key", S_aes_key, "AES key already exists!",
            "put_aes_key_append", "put_hardware_version")

PutAesKeyAppend(p) ==
    \E k \in AesKeys :
        PutAppend(p, "put_aes_key", "put_aes_key_append", AesRow(k), "put_hardware_version")

PutHardwareVersionScan(p) ==
    PutScan(p, "put_hardware_version", S_hv, "Hardware version key already exists!",
            "put_hardware_version_append", "execute_generator")

PutHardwareVersionAppend(p) ==
    PutAppend(p, "put_hardware_version", "put_hardware_version_append",
              HvRow(args[p].hv.val), "execute_generator")

\* generate_cert_bin from the generator's command to its return (lines
\* 171-182), and main's test of the code (lines 368, 376)
RunGeneratorWith(p, outcomes) ==
    /\ pc[p] = "execute_generator"
    /\ \E o \in outcomes :
        LET cmd == GeneratorCmd(CsvPath(dmac[p]), BinFile(dmac[p]), o)
            ret == ExecuteCommand(o)
        IN
        /\ calls' = [calls EXCEPT ![p] = Append(@, cmd)]
        /\ fs' = IF o.wrote THEN WriteFile(fs, BinFile(dmac[p]), Blob) ELSE fs
        /\ code' = [code EXCEPT ![p] = <<ret>>]
        /\ pc' = [pc EXCEPT ![p] = IF FlashGate(ret) THEN "flash_nvs" ELSE "done"]
        /\ last' = [NoLast EXCEPT !.fn = "generate_cert_bin", !.by = p, !.mac = dmac[p],
                                  !.pre = entry[p], !.post = fs', !.ret = <<ret>>,
                                  !.calls = <<cmd>>, !.arg = args[p].hv.val]
    /\ UNCHANGED <<args, wf, dmac, entry, seen, fcode, out, touched, runs>>

RunGenerator(p) == RunGeneratorWith(p, GenOutcomes)

\* flash_nvs (lines 192-215)
FlashNvsWith(p, outcomes) ==
    /\ pc[p] = "flash_nvs"
    /\ IF Exists(fs, BinFile(dmac[p]))
       THEN \E o \in outcomes :
              LET cmd == FlashCmd(args[p].port.val, BinFile(dmac[p]), o) IN
              /\ calls' = [calls EXCEPT ![p] = Append(@, cmd)]
              /\ fcode' = [fcode EXCEPT ![p] = <<ExecuteCommand(o)>>]
              /\ last' = [NoLast EXCEPT !.fn = "flash_nvs", !.by = p, !.mac = dmac[p], !.pre = fs,
                                        !.post = fs, !.ret = <<ExecuteCommand(o)>>,
                                        !.calls = <<cmd>>]
       ELSE /\ fcode' = [fcode EXCEPT ![p] = <<1>>]
            /\ last' = [NoLast EXCEPT !.fn = "flash_nvs", !.by = p, !.mac = dmac[p], !.pre = fs,
                                      !.post = fs, !.ret = <<1>>]
            /\ UNCHANGED calls
    /\ pc' = [pc EXCEPT ![p] = "done"]
    /\ UNCHANGED <<fs, args, wf, dmac, entry, seen, code, out, touched, runs>>

FlashNvs(p) == FlashNvsWith(p, RunOutcomes)

\* The invocation ends; the process slot is free for the next one.
Exit(p) ==
    /\ pc[p] = "done"
    /\ pc' = [pc EXCEPT ![p] = "idle"]
    /\ args' = [args EXCEPT ![p] = NoArgs]
    /\ wf' = [wf EXCEPT ![p] = ""]
    /\ dmac' = [dmac EXCEPT ![p] = <<>>]
    /\ entry' = [entry EXCEPT ![p] = EmptyFS]
    /\ seen' = [seen EXCEPT ![p] = <<>>]
    /\ code' = [code EXCEPT ![p] = <<>>]
    /\ fcode' = [fcode EXCEPT ![p] = <<>>]
    /\ calls' = [calls EXCEPT ![p] = <<>>]
    /\ out' = [out EXCEPT ![p] = {}]
    /\ touched' = [touched EXCEPT ![p] = {}]
    /\ last' = NoLast
    /\ UNCHANGED <<fs, runs>>

Step(p) ==
    \/ GetMacAddress(p)
    \/ Scaffold(p)
    \/ GenerateCertBin(p)
    \/ PutAesKeyScan(p)
    \/ PutAesKeyAppend(p)
    \/ PutHardwareVersionScan(p)
    \/ PutHardwareVersionAppend(p)
    \/ RunGenerator(p)
    \/ FlashNvs(p)
    \/ Exit(p)

\* One invocation at a time, any command line, one after the other.
Launch(p) == Quiet /\ runs < MaxRuns /\ \E a \in Args : Main(p, a)

Next == \E p \in {"p1"} : Launch(p) \/ Step(p)

Spec == Init /\ [][Next]_vars

\* Invocations of the generate-and-flash workflow for the same device, run
\* at the same time from two shells, with any hardware version.  The
\* external tools are taken to work here (they start, the generator leaves a
\* blob, both exit 0): they never write the store, which is what this
\* specification is about.
ConcArgs ==
    {a \in Args : a.port.given /\ a.mac = Arg(DeviceMac) /\ a.hv.given /\ ~a.generate}

GeneratorWorks == {[spawned |-> TRUE, rc |-> 0, wrote |-> TRUE]}

FlasherWorks == {[spawned |-> TRUE, rc |-> 0]}

LaunchConc(p) == runs < MaxConcRuns /\ \E a \in ConcArgs : Main(p, a)

StepConc(p) ==
    \/ GenerateCertBin(p)
    \/ PutAesKeyScan(p)
    \/ PutAesKeyAppend(p)
    \/ PutHardwareVersionScan(p)
    \/ PutHardwareVersionAppend(p)
    \/ RunGeneratorWith(p, GeneratorWorks)
    \/ FlashNvsWith(p, FlasherWorks)
    \/ Exit(p)

NextConc == \E p \in Procs : LaunchConc(p) \/ StepConc(p)

\* They start from a device folder that holds a store.
InitConc == Init /\ fs \in {InitTree("both", store, FALSE) : store \in {"empty", "scaffolded"}}

SpecConc == InitConc /\ [][NextConc]_vars

----------------------------------------------------------------------------
(* What the claims speak of *)

\* The bytes and the rows of a device's store in the tree f
StoreBytes(f, mac) == IF IsFile(f, CsvPath(mac)) THEN f.files[CsvPath(mac)] ELSE <<>>

StoreRows(f, mac) == ReadRows(StoreBytes(f, mac))

KeyRows(rows, key) == {i \in 1..Len(rows) : rows[i] /= <<>> /\ rows[i][1] = key}

HasKey(rows, key) == KeyRows(rows, key) /= {}

KeyOf(fn) == IF fn = "put_aes_key" THEN S_aes_key ELSE S_hv

PutFns == {"put_aes_key", "put_hardware_version"}

FlashWorkflows == {"generate_flash_mac", "generate_flash_port"}

Subs(p) == {calls[p][i].sub : i \in 1..Len(calls[p])}

\* C1: in an invocation of main the flasher's write_flash is run only after
\* generate_cert_bin has returned 0, which it does only after the generator
\* it ran exited 0; an invocation whose generate_cert_bin returned non-zero
\* or was never reached runs no write_flash.
C1_FlashOnlyAfterGeneratorZero ==
    \A p \in Procs :
        \A i \in 1..Len(calls[p]) :
            calls[p][i].sub = "write_flash" =>
                /\ wf[p] \in FlashWorkflows
                /\ code[p] = <<0>>
                /\ \E j \in 1..(i - 1) :
                      /\ calls[p][j].sub = "generate"
                      /\ calls[p][j].spawned
                      /\ calls[p][j].rc = 0

C1_Witness ==
    \E p \in Procs :
        /\ wf[p] = "generate_flash_port"
        /\ pc[p] = "done"
        /\ "write_flash" \in Subs(p)

\* C2: a call of generate_cert_bin that finds no certs/<mac>/nvs.csv returns
\* 1, runs no external command and leaves the tree under certs/ as it was;
\* the invocation has then written no file.
C2_GenerateRefusesWithoutStore ==
    /\ (last.fn = "generate_cert_bin" /\ ~IsFile(last.pre, CsvPath(last.mac))) =>
          /\ last.ret = <<1>>
          /\ last.calls = <<>>
          /\ last.post = last.pre
    /\ \A p \in Procs :
          (code[p] /= <<>> /\ ~IsFile(entry[p], CsvPath(dmac[p]))) =>
              /\ code[p] = <<1>>
              /\ "generate" \notin Subs(p)
              /\ touched[p] = {}
              /\ fs = entry[p]

C2_Witness ==
    /\ last.fn = "generate_cert_bin"
    /\ ~IsFile(last.pre, CsvPath(last.mac))
    /\ DeviceFolder(last.mac) \in last.pre.dirs
    /\ last.ret = <<1>>

\* C3: a call of flash_nvs that finds no certs/<mac>/certs.bin returns 1 and
\* runs no command; one that finds it runs exactly one command, esptool
\* write_flash of that file at baud 115200 and offset 0x9000, and returns
\* the exit code of the flasher when it ran (1 when it could not be started).
C3_FlashNeedsBlob ==
    last.fn = "flash_nvs" =>
        IF ~IsFile(last.pre, BinFile(last.mac))
        THEN last.ret = <<1>> /\ last.calls = <<>>
        ELSE /\ Len(last.calls) = 1
             /\ last.calls[1].tool = "esptool"
             /\ last.calls[1].sub = "write_flash"
             /\ last.calls[1].baud = "115200"
             /\ last.calls[1].offset = "0x9000"
             /\ last.calls[1].file = BinFile(last.mac)
             /\ last.ret = <<IF last.calls[1].spawned THEN last.calls[1].rc ELSE 1>>

C3_Witness ==
    /\ last.fn = "flash_nvs"
    /\ ~IsFile(last.pre, BinFile(last.mac))
    /\ last.ret = <<1>>

\* C4: a call of put_aes_key or put_hardware_version on a store in which
\* some row's first column is the key leaves the whole tree unchanged, so
\* the store keeps its rows in their order, whatever value was passed.
C4_ExistingKeyIsNoOp ==
    last.fn \in PutFns =>
        \A before \in {StoreRows(last.pre, last.mac)} :
            HasKey(before, KeyOf(last.fn)) =>
                /\ last.post = last.pre
                /\ StoreRows(last.post, last.mac) = before

\* the hardware version passed differs from the one stored
C4_Witness ==
    /\ last.fn = "put_hardware_version"
    /\ \E rows \in {StoreRows(last.pre, last.mac)} :
       /\ HasKey(rows, S_hv)
       /\ \A i \in KeyRows(rows, S_hv) : rows[i][4] /= args[last.by].hv.val

C6_ScaffoldIdempotent ==
    last.fn = "create_folder_and_files" =>
        LET folder == DeviceFolder(last.mac) IN
        /\ folder \in last.post.dirs
        /\ \A i \in 1..Len(files_to_create) :
              IsFile(last.post, PathJoin(folder, files_to_create[i]))
        /\ \A rows \in {StoreRows(last.post, last.mac)} :
              rows = DescriptorRows(folder) /\ Len(rows) = 4
        /\ CreateFolderAndFiles(last.post, last.mac, files_to_create, S_nvs_csv) = last.post

\* the folder was partly present: a certificate, and a store that holds
\* more than the four rows, but no private key
C6_Witness ==
    /\ last.fn = "create_folder_and_files"
    /\ LET folder == DeviceFolder(last.mac) IN
       /\ folder \in last.pre.dirs
       /\ ~IsFile(last.pre, PathJoin(folder, S_private_pem_key))
       /\ Len(StoreRows(last.pre, last.mac)) > 4
       /\ last.post /= last.pre

\* C7 as stated: every operation of every workflow leaves the store it found
\* as a prefix of the store it leaves.
C7_AppendOnlyEveryWorkflow ==
    (last.fn /= "" /\ IsFile(last.pre, CsvPath(last.mac))) =>
        /\ IsFile(last.post, CsvPath(last.mac))
        /\ \A before \in {StoreRows(last.pre, last.mac)},
              after \in {StoreRows(last.post, last.mac)} : IsPrefix(before, after)

\* C7 as amended: the generation and flash workflows are append-only (the
\* store a call of generate_cert_bin, put_aes_key, put_hardware_version or
\* flash_nvs found is a prefix of the store it leaves); scaffolding is not:
\* it replaces the store by the header row and the three descriptor rows.
C7_AppendOnlyButScaffold ==
    /\ (last.fn \notin {"", "create_folder_and_files"} /\ IsFile(last.pre, CsvPath(last.mac))) =>
          /\ IsFile(last.post, CsvPath(last.mac))
          /\ IsPrefix(StoreBytes(last.pre, last.mac), StoreBytes(last.post, last.mac))
          /\ \A before \in {StoreRows(last.pre, last.mac)},
                after \in {StoreRows(last.post, last.mac)} : IsPrefix(before, after)
    /\ last.fn = "create_folder_and_files" =>
          StoreRows(last.post, last.mac) = DescriptorRows(DeviceFolder(last.mac))

\* a generation run that appended both rows to a store that held rows
C7_Witness ==
    /\ last.fn = "generate_cert_bin"
    /\ Len(StoreRows(last.pre, last.mac)) = 4
    /\ Len(StoreRows(last.post, last.mac)) = 6

\* The four combinations, by the presence of the flags
Recognized(a) ==
    \/ a.port.given /\ a.mac.given /\ a.hv.given
    \/ a.port.given /\ a.hv.given
    \/ a.generate /\ a.mac.given
    \/ a.generate /\ a.port.given

\* C8 as stated: an invocation whose flags are none of the four combinations
\* prints the help text, runs no external command and writes no file.
C8_OthersPrintHelp ==
    \A p \in Procs :
        (pc[p] /= "idle" /\ ~Recognized(args[p])) =>
            /\ "help" \in out[p]
            /\ calls[p] = <<>>
            /\ touched[p] = {}

\* The four combinations, a flag counting when its value is not empty
RecognizedValue(a) ==
    \/ Truthy(a.port) /\ Truthy(a.mac) /\ Truthy(a.hv)
    \/ Truthy(a.port) /\ Truthy(a.hv)
    \/ a.generate /\ Truthy(a.mac)
    \/ a.generate /\ Truthy(a.port)

\* C8 as amended: with a flag counting as present when its value is not
\* empty, main runs a generation or scaffolding workflow only for the four
\* combinations; for --port without them (--port alone, --port with --mac)
\* it runs the flashing tool's read_mac, prints no help and writes no file;
\* for every other combination it prints the help text, runs no external
\* command and writes no file.
C8_OthersHelpOrReadMac ==
    \A p \in Procs :
        pc[p] /= "idle" =>
            IF RecognizedValue(args[p])
            THEN wf[p] \in FlashWorkflows \cup {"scaffold_mac", "scaffold_port"}
                 /\ "help" \notin out[p]
            ELSE /\ touched[p] = {}
                 /\ Subs(p) \subseteq {"read_mac"}
                 /\ IF Truthy(args[p].port)
                    THEN /\ "help" \notin out[p]
                         /\ pc[p] \in {"get_mac_address", "done"}
                         /\ pc[p] = "done" => Len(calls[p]) = 1
                    ELSE /\ "help" \in out[p]
                         /\ calls[p] = <<>>
                         /\ pc[p] = "done"

\* --port with --mac and nothing else: read_mac was run, no help printed
C8_Witness ==
    \E p \in Procs :
        /\ pc[p] = "done"
        /\ Truthy(args[p].port) /\ Truthy(args[p].mac)
        /\ ~args[p].hv.given /\ ~args[p].generate
        /\ Subs(p) = {"read_mac"}
        /\ "help" \notin out[p]

\* An append that found the store changed since its scan: another
\* invocation wrote between this one's scan and this one's append.
Raced(fn) ==
    /\ last.fn = fn
    /\ fn \in touched[last.by]
    /\ StoreBytes(last.pre, last.mac) /= last.read

\* C9 as stated: when two invocations have both scanned for aes_key before
\* either appended, the store ends with two aes_key rows.
C9_RaceEndsWithTwoRows ==
    \A p, q \in Procs :
        (/\ p /= q
         /\ pc[p] = "done" /\ pc[q] = "done"
         /\ MacNorm(dmac[p]) = MacNorm(dmac[q])
         /\ "put_aes_key" \in touched[p] \cap touched[q]) =>
            Cardinality(KeyRows(StoreRows(fs, dmac[p]), S_aes_key)) = 2

Max(a, b) == IF a > b THEN a ELSE b

\* C9 as amended: the scan and the append are not atomic, and both
\* invocations append at the offset their scan ended at, so the later
\* append overwrites the earlier one instead of following it.  The store
\* never holds two aes_key rows: after a raced put_aes_key it holds one, with
\* the later writer's key, and is no longer than before.  After a raced
\* put_hardware_version the first hv row is the later writer's and the file
\* ends where the longer of the two writes ended.
C9_RaceOverwrites ==
    /\ \A rows \in {StoreRows(fs, DeviceMac)} :
          Cardinality(KeyRows(rows, S_aes_key)) <= 1
    /\ Raced("put_aes_key") =>
          \A rows \in {StoreRows(last.post, last.mac)} :
          /\ Len(StoreBytes(last.post, last.mac)) = Len(StoreBytes(last.pre, last.mac))
          /\ \A i \in KeyRows(rows, S_aes_key) : rows[i] = AesRow(last.arg)
          /\ Cardinality(KeyRows(rows, S_aes_key)) = 1
    /\ Raced("put_hardware_version") =>
          \A rows \in {StoreRows(last.post, last.mac)} :
          /\ HasKey(rows, S_hv)
          /\ rows[MinOf(KeyRows(rows, S_hv))] = HvRow(last.arg)
          /\ Len(StoreBytes(last.post, last.mac)) =
                Max(Len(StoreBytes(last.pre, last.mac)),
                    Len(last.read) + Len(WriteRow(HvRow(last.arg))))

\* both had scanned before either appended, and the second has now appended
\* a key other than the first's
C9_Witness ==
    /\ Raced("put_aes_key")
    /\ \E rows \in {StoreRows(last.pre, last.mac)} :
          \E i \in KeyRows(rows, S_aes_key) : rows[i][4] /= last.arg
    /\ Len(last.read) < Len(StoreBytes(last.pre, last.mac))

\* C10: an invocation of a generation workflow that finds a store holding
\* an aes_key row and an hv row leaves the store, byte for byte, as it found
\* it, whatever hardware version it was given, and still runs the generator
\* exactly once; and no call other than create_folder_and_files changes the
\* value stored under a key.
C10_StoredValuesKept ==
    /\ \A p \in Procs :
          (/\ wf[p] \in FlashWorkflows
           /\ pc[p] \in {"flash_nvs", "done"}
           /\ \E rows \in {StoreRows(entry[p], dmac[p])} :
                 HasKey(rows, S_aes_key) /\ HasKey(rows, S_hv)) =>
              /\ StoreBytes(fs, dmac[p]) = StoreBytes(entry[p], dmac[p])
              /\ Cardinality({i \in 1..Len(calls[p]) : calls[p][i].sub = "generate"}) = 1
              /\ code[p] /= <<>>
    /\ last.fn \notin {"", "create_folder_and_files"} =>
          \A before \in {StoreRows(last.pre, last.mac)},
             after \in {StoreRows(last.post, last.mac)} :
             \A key \in {S_aes_key, S_hv} :
                HasKey(before, key) =>
                    {after[i] : i \in KeyRows(after, key)}
                      = {before[i] : i \in KeyRows(before, key)}

\* a later run, given another hardware version than the stored one
C10_Witness ==
    \E p \in Procs :
        /\ wf[p] \in FlashWorkflows
        /\ pc[p] = "done"
        /\ "generate" \in Subs(p)
        /\ \E rows \in {StoreRows(entry[p], dmac[p])} :
           /\ HasKey(rows, S_aes_key)
           /\ HasKey(rows, S_hv)
           /\ \A i \in KeyRows(rows, S_hv) : rows[i][4] /= args[p].hv.val

====
